---- MODULE Spec2Model ----
(***************************************************************************)
(* ksoftapi.Client (src/ksoftapi/client.py): the ban hook registry, the    *)
(* dispatch of ban events to the hooks, the _ban_updater poll loop, and    *)
(* the construction of clients (Client(...) and Client.pluggable).         *)
(*                                                                         *)
(* The loop is a coroutine on a cooperative scheduler: everything between  *)
(* two awaits is one atomic step.  The awaits are bot.wait_until_ready()   *)
(* (line 77), http.get (line 82), hook(event) (line 72) and asyncio.sleep  *)
(* (line 90); while the coroutine is suspended in one of them the host     *)
(* application, the clock and the hooks themselves may act.                *)
(*                                                                         *)
(* Two specifications.  SpecCtor is construction: Client(...) and          *)
(* Client.pluggable on the host objects.  Spec is the life of one client   *)
(* after its construction, objs[1] ("self"): its registry, its watermark   *)
(* and its _ban_updater coroutine, which line 51 never starts (see         *)
(* create_task) and which is therefore started by a call of                *)
(* self._ban_updater(), StartBanUpdater.                                   *)
(***************************************************************************)
EXTENDS Integers, Sequences, FiniteSets, TLC

\* ---------------------------------------------------------------- bounds
NumHooks == 2        \* callbacks the application may register
NumBots == 1         \* host objects (discord.py bots)
MaxClients == 2      \* Client objects constructed
MaxData == 2         \* records in one /updates response
MaxIntervals == 1    \* whole sleep intervals the clock may advance
MaxJitter == 1       \* single seconds the clock may advance within an interval

\* ------------------------------------------------------ program constants
Backlog == 60 * 10           \* __init__: time.time() - 60 * 10
SleepInterval == 60 * 5      \* _ban_updater: asyncio.sleep(60 * 5)

MaxTime == MaxIntervals * SleepInterval + MaxJitter

None == 0                    \* Python's None, also "attribute not set"
Hooks == 1..NumHooks
Bots == 1..NumBots
Users == {1}

\* An update record of the /updates feed: whether it has the 'active' key,
\* the flag, and the user it is about.
Records ==
    {b \in [has_active : BOOLEAN, active : BOOLEAN, user : Users] :
        ~b.has_active => ~b.active}

RECURSIVE SeqsUpTo(_, _)
SeqsUpTo(S, n) ==
    IF n = 0 THEN {<<>>}
    ELSE LET shorter == SeqsUpTo(S, n - 1)
         IN shorter \cup {Append(s, x) : s \in {t \in shorter : Len(t) = n - 1}, x \in S}

\* What http.get may answer with: a body with a 'data' list, or a body
\* without the 'data' key.
Responses ==
    [has_data : {TRUE}, data : SeqsUpTo(Records, MaxData)]
        \cup {[has_data |-> FALSE, data |-> <<>>]}

\* Exceptions that occur in the loop; every one is a subclass of Exception.
ExceptionSubclasses == {"TransportError", "APIError", "KeyError", "NameError", "HookError"}

VARIABLES
    strictTask,   \* the build's Task constructor rejects a non-coroutine
    objs,         \* the clients whose construction completed
    ksoft,        \* bot.ksoft for every bot (None: attribute not set)
    lastCall,     \* the last construction call and how it ended
    regLast,      \* how the last registry call ended
    ban_hook,     \* self._ban_hook
    regSet,       \* the set of callbacks registered and not unregistered
    last_update,  \* self._last_update
    now,          \* time.time()
    ready,        \* bot.wait_until_ready() may return
    closed,       \* bot.is_closed()
    pc,           \* where the _ban_updater coroutine of self is
    sent,         \* the timestamp parameter of the last fetch issued
    data,         \* r['data'] of the response being iterated
    recIdx,       \* position of the for loop of line 84
    hookIdx,      \* position of the list iterator of line 70
    sleepUntil,   \* when the asyncio.sleep of line 90 may return
    cyc,          \* what the current (or last) cycle has done so far
    disp          \* what the current (or last) dispatch has done so far

vars == <<strictTask, objs, ksoft, lastCall, regLast, ban_hook, regSet, last_update, now,
          ready, closed, pc, sent, data, recIdx, hookIdx, sleepUntil, cyc, disp>>

ctorVars == <<objs, ksoft, lastCall>>
hostVars == <<ready, closed>>
loopVars == <<pc, sent, data, recIdx, hookIdx, sleepUntil, cyc>>

\* ------------------------------------------------------------- sequences
In(x, l) == \E i \in 1..Len(l) : l[i] = x

Range(l) == {l[i] : i \in 1..Len(l)}

IndexOf(x, l) == CHOOSE i \in 1..Len(l) : l[i] = x /\ \A j \in 1..(i - 1) : l[j] # x

\* list.remove(x): drops the first occurrence, ValueError when there is none
ListRemove(l, x) ==
    IF In(x, l)
    THEN [list |-> SubSeq(l, 1, IndexOf(x, l) - 1) \o SubSeq(l, IndexOf(x, l) + 1, Len(l)),
          raised |-> FALSE]
    ELSE [list |-> l, raised |-> TRUE]

\* ---------------------------------------------------------- the registry
register_always_appends(hooks, func) == [list |-> Append(hooks, func), raised |-> FALSE]

register_ban_hook(hooks, func) ==
    IF ~In(func, hooks)
    THEN [list |-> Append(hooks, func), raised |-> FALSE]
    ELSE [list |-> hooks, raised |-> FALSE]

unregister_ban_hook(hooks, func) ==
    IF In(func, hooks)
    THEN ListRemove(hooks, func)
    ELSE [list |-> hooks, raised |-> FALSE]

\* ------------------------------------------------------- construction
\* loop.create_task(self._ban_updater), line 51: the argument is the bound
\* method, not the coroutine self._ban_updater().  A Task constructor that
\* checks its argument raises (TypeError; AssertionError in the pure-Python
\* Task of 3.5/3.6); one that does not (the C Task of CPython 3.6) makes a
\* task whose first step fails on method.send, so no line of _ban_updater
\* ever runs in it.
create_task(strict) == IF strict THEN "TypeError" ELSE "dead"

\* Client.__init__(api_key, bot): the object constructed, or the exception
\* the constructor ends with.
ClientInit(bot, strict, t) ==
    LET task == IF bot # None THEN create_task(strict) ELSE "none"
    IN [raised |-> task = "TypeError",
        obj |-> [bot |-> bot, task |-> task],
        _ban_hook |-> <<>>,
        _last_update |-> t - Backlog]

\* ------------------------------------------------------------- the cycle
\* line 78: while not self.bot.is_closed()
LoopCondIgnoresClosed(isClosed) == TRUE

LoopCond(isClosed) == ~isClosed

\* line 80: if self._ban_hook
ShouldFetchAlways(hooks) == TRUE

ShouldFetch(hooks) == hooks # <<>>

\* line 83: self._last_update = time.time(), executed once http.get returned
WatermarkKept(old, t) == old

WatermarkAhead(old, t) == t + SleepInterval

Watermark(old, t) == t

\* line 83 is not reached when the http.get of line 82 raises: the watermark
\* after a fetch that failed at clock value t
WatermarkSetOnFailure(old, t) == t

WatermarkOnFailure(old, t) == old

\* line 82: params={'timestamp': self._last_update}, read at clock value t
TimestampParamNow(lu, t) == t

TimestampParam(lu, t) == lu

\* line 90: asyncio.sleep(60 * 5) started at clock value t may return from
\* this clock value on
SleepDeadlineAtOnce(t) == t

SleepDeadline(t) == t + SleepInterval

\* line 77: await self.bot.wait_until_ready() returns once the host is ready
WaitReturnsAtOnce(isReady) == TRUE

WaitReturns(isReady) == isReady

\* line 85: BanEvent(**b) if b['active'] else UnBanEvent(**b)
EventAlwaysBan(b) == [type |-> "BanEvent", fields |-> b]

EventFor(b) == [type |-> IF b.active THEN "BanEvent" ELSE "UnBanEvent", fields |-> b]

\* line 87: except Exception
CaughtOnlyAPIError(exc) == exc = "APIError"

Caught(exc) == exc \in ExceptionSubclasses

\* line 74, the body of the except clause of _dispatch_ban_event: the name
\* func is bound nowhere in that scope, so evaluating func.__name__ raises
\* NameError before anything is logged.
ExceptBody(exc) == "NameError"

\* Lines 84-86 between two awaits: from record i on, the for loop runs until
\* a hook is awaited ("hook"), b['active'] raises KeyError ("error") or the
\* list is exhausted ("end").  With an empty registry a dispatch returns at
\* once and the loop goes on to the next record.
RECURSIVE NextStop(_, _, _)
NextStop(d, i, hooks) ==
    IF i > Len(d) THEN [k |-> "end", i |-> i]
    ELSE IF ~d[i].has_active THEN [k |-> "error", i |-> i]
    ELSE IF hooks = <<>> THEN NextStop(d, i + 1, hooks)
    ELSE [k |-> "hook", i |-> i]

NoCycle ==
    [started |-> None - 1,   \* time.time() when the cycle began
     emptyAtCheck |-> TRUE,  \* line 80 found the registry empty
     fetches |-> 0,          \* http.get calls issued
     served |-> None - 1,    \* time.time() when the server answered the request
     answered |-> None - 1,  \* time.time() when http.get returned
     err |-> "",             \* the exception the try block ended with
     pending |-> FALSE,      \* that exception was not caught
     events |-> <<>>]        \* the events passed to _dispatch_ban_event

\* The current (or last) call of _dispatch_ban_event
NoDispatch ==
    [state |-> "none",       \* "running", or how it ended: "returned", "raised"
     snap |-> <<>>,          \* the registry when it began
     mutated |-> FALSE,      \* the registry changed while it was running
     removed |-> {},         \* the hooks unregistered while it was running
     invoked |-> <<>>]       \* the hooks it has invoked, in order

\* A dispatch that found the registry empty
EmptyDispatch == [NoDispatch EXCEPT !.state = "returned"]

\* Before any client exists
InitCtor ==
    /\ strictTask \in BOOLEAN
    /\ objs = <<>>
    /\ ksoft = [b \in Bots |-> None]
    /\ lastCall = [op |-> "", arg |-> None, raised |-> FALSE, result |-> None]
    /\ regLast = "none"
    /\ ban_hook = <<>>
    /\ regSet = {}
    /\ last_update = 0
    /\ now = 0
    /\ ready = FALSE
    /\ closed = FALSE
    /\ pc = "unborn"
    /\ sent = None - 1
    /\ data = <<>>
    /\ recIdx = 0
    /\ hookIdx = 0
    /\ sleepUntil = 0
    /\ cyc = NoCycle
    /\ disp = NoDispatch

\* After the construction of self, Client(api_key, bot=bot), on a build whose
\* constructor completes
Init ==
    \E bot \in Bots \cup {None} :
        LET c == ClientInit(bot, FALSE, 0)
        IN /\ strictTask = FALSE
           /\ objs = <<c.obj>>
           /\ ksoft = [b \in Bots |-> None]
           /\ lastCall = [op |-> "Client", arg |-> bot, raised |-> c.raised, result |-> 1]
           /\ regLast = "none"
           /\ ban_hook = c._ban_hook
           /\ regSet = {}
           /\ last_update = c._last_update
           /\ now = 0
           /\ ready = FALSE
           /\ closed = FALSE
           /\ pc = "unborn"
           /\ sent = None - 1
           /\ data = <<>>
           /\ recIdx = 0
           /\ hookIdx = 0
           /\ sleepUntil = 0
           /\ cyc = NoCycle
           /\ disp = NoDispatch
    /\ disp = NoDispatch

\* ------------------------------------------------------- public calls
\* Client(api_key, bot=bot)
Construct(bot) ==
    LET c == ClientInit(bot, strictTask, now)
    IN /\ Len(objs) < MaxClients
       /\ lastCall' = [op |-> "Client", arg |-> bot, raised |-> c.raised,
                       result |-> IF c.raised THEN None ELSE Len(objs) + 1]
       /\ objs' = IF c.raised THEN objs ELSE Append(objs, c.obj)
       /\ IF ~c.raised /\ objs = <<>>
          THEN ban_hook' = c._ban_hook /\ last_update' = c._last_update
          ELSE UNCHANGED <<ban_hook, last_update>>
       /\ UNCHANGED <<strictTask, ksoft, regLast, regSet, now, hostVars, loopVars, disp>>

\* Client.pluggable(bot, api_key), lines 109-113
Pluggable(bot) ==
    IF ksoft[bot] # None
    THEN /\ lastCall' = [op |-> "pluggable", arg |-> bot, raised |-> FALSE,
                         result |-> ksoft[bot]]
         /\ UNCHANGED <<strictTask, objs, ksoft, regLast, ban_hook, regSet, last_update, now,
                        hostVars, loopVars, disp>>
    ELSE LET c == ClientInit(bot, strictTask, now)
         IN /\ Len(objs) < MaxClients
            /\ lastCall' = [op |-> "pluggable", arg |-> bot, raised |-> c.raised,
                            result |-> IF c.raised THEN None ELSE Len(objs) + 1]
            /\ objs' = IF c.raised THEN objs ELSE Append(objs, c.obj)
            /\ ksoft' = IF c.raised THEN ksoft ELSE [ksoft EXCEPT ![bot] = Len(objs) + 1]
            /\ IF ~c.raised /\ objs = <<>>
               THEN ban_hook' = c._ban_hook /\ last_update' = c._last_update
               ELSE UNCHANGED <<ban_hook, last_update>>
            /\ UNCHANGED <<strictTask, regLast, regSet, now, hostVars, loopVars, disp>>

\* How a registry call ended: it raised, it found nothing to do (the callback
\* was already registered, or was not registered), or it changed the list.
Outcome(r, present, wanted) ==
    IF r.raised THEN "raised" ELSE IF present = wanted THEN "noop" ELSE "changed"

\* A change of the registry while a dispatch is suspended in a hook
NoteMutation(changed, gone) ==
    IF changed /\ pc = "hook"
    THEN [disp EXCEPT !.mutated = TRUE, !.removed = @ \cup gone]
    ELSE disp

\* self.register_ban_hook(func)
Register(func) ==
    LET r == register_ban_hook(ban_hook, func)
    IN /\ Len(objs) >= 1
       /\ ban_hook' = r.list
       /\ regSet' = regSet \cup {func}
       /\ regLast' = Outcome(r, func \in regSet, TRUE)
       /\ disp' = NoteMutation(r.list # ban_hook, {})
       /\ UNCHANGED <<strictTask, ctorVars, last_update, now, hostVars, loopVars>>

\* self.unregister_ban_hook(func)
Unregister(func) ==
    LET r == unregister_ban_hook(ban_hook, func)
    IN /\ Len(objs) >= 1
       /\ ban_hook' = r.list
       /\ regSet' = regSet \ {func}
       /\ regLast' = Outcome(r, func \in regSet, FALSE)
       /\ disp' = NoteMutation(r.list # ban_hook, {func})
       /\ UNCHANGED <<strictTask, ctorVars, last_update, now, hostVars, loopVars>>

\* ---------------------------------------------------- host and clock
\* time.time() advances: by a second (at most MaxJitter of them within an
\* interval) or by a whole sleep interval.
Tick(d) ==
    /\ now + d <= MaxTime
    /\ d = 1 => (now % SleepInterval) < MaxJitter
    /\ now' = now + d
    /\ UNCHANGED <<strictTask, ctorVars, regLast, ban_hook, regSet, last_update,
                   hostVars, loopVars, disp>>

HostReady ==
    /\ ~ready
    /\ ready' = TRUE
    /\ UNCHANGED <<strictTask, ctorVars, regLast, ban_hook, regSet, last_update, now,
                   closed, loopVars, disp>>

HostClose ==
    /\ ~closed
    /\ closed' = TRUE
    /\ UNCHANGED <<strictTask, ctorVars, regLast, ban_hook, regSet, last_update, now,
                   ready, loopVars, disp>>

\* ------------------------------------------------------ the coroutine
\* The try block ended with exception exc: line 87 catches it or not, and
\* the finally clause starts the sleep either way.
Fail(c, exc) ==
    /\ pc' = "sleep"
    /\ sleepUntil' = SleepDeadline(now)
    /\ cyc' = [c EXCEPT !.err = exc, !.pending = ~Caught(exc)]

\* Line 78 up to the next await: the loop test, then either the fetch is
\* issued or the cycle goes straight to the sleep of the finally clause.
EnterLoop ==
    IF ~LoopCond(closed)
    THEN /\ pc' = "stopped"
         /\ UNCHANGED <<sent, sleepUntil, cyc, disp>>
    ELSE IF ShouldFetch(ban_hook)
    THEN /\ pc' = "fetch"
         /\ sent' = TimestampParam(last_update, now)
         /\ cyc' = [NoCycle EXCEPT !.started = now, !.emptyAtCheck = (ban_hook = <<>>),
                                   !.fetches = 1]
         /\ disp' = NoDispatch
         /\ UNCHANGED sleepUntil
    ELSE /\ pc' = "sleep"
         /\ sleepUntil' = SleepDeadline(now)
         /\ cyc' = [NoCycle EXCEPT !.started = now, !.emptyAtCheck = (ban_hook = <<>>)]
         /\ disp' = NoDispatch
         /\ UNCHANGED sent

\* Lines 84-86 from record i on, up to the next await; dp is the dispatch
\* that was last running.  The dispatches of the records before the stop
\* found the registry empty and returned at once.
Continue(c, dp, d, i) ==
    LET stop == NextStop(d, i, ban_hook)
        c1 == [c EXCEPT !.events = @ \o [k \in 1..(stop.i - i) |-> EventFor(d[i + k - 1])]]
        dp1 == IF stop.i > i THEN EmptyDispatch ELSE dp
    IN CASE stop.k = "end" ->
              /\ pc' = "sleep"
              /\ sleepUntil' = SleepDeadline(now)
              /\ recIdx' = stop.i
              /\ hookIdx' = 0
              /\ cyc' = c1
              /\ disp' = dp1
         [] stop.k = "error" ->
              /\ Fail(c1, "KeyError")
              /\ recIdx' = stop.i
              /\ hookIdx' = 0
              /\ disp' = dp1
         [] stop.k = "hook" ->
              /\ pc' = "hook"
              /\ recIdx' = stop.i
              /\ hookIdx' = 1
              /\ cyc' = [c1 EXCEPT !.events = Append(@, EventFor(d[stop.i]))]
              /\ disp' = [state |-> "running", snap |-> ban_hook, mutated |-> FALSE,
                          removed |-> {}, invoked |-> <<ban_hook[1]>>]
              /\ UNCHANGED sleepUntil

\* self._ban_updater() is called and run by the event loop
StartBanUpdater ==
    /\ pc = "unborn"
    /\ Len(objs) >= 1
    /\ IF objs[1].bot = None
       THEN pc' = "failed" /\ UNCHANGED <<sent, sleepUntil, cyc, disp>>
       ELSE IF WaitReturns(ready)
       THEN EnterLoop
       ELSE pc' = "wait_ready" /\ UNCHANGED <<sent, sleepUntil, cyc, disp>>
    /\ UNCHANGED <<strictTask, ctorVars, regLast, ban_hook, regSet, last_update, now,
                   hostVars, data, recIdx, hookIdx>>

\* line 77: wait_until_ready() returns
ResumeReady ==
    /\ pc = "wait_ready"
    /\ WaitReturns(ready)
    /\ EnterLoop
    /\ UNCHANGED <<strictTask, ctorVars, regLast, ban_hook, regSet, last_update, now,
                   hostVars, data, recIdx, hookIdx>>

\* line 82: http.get raises
FetchRaises(exc) ==
    /\ pc = "fetch"
    /\ Fail(cyc, exc)
    /\ last_update' = WatermarkOnFailure(last_update, now)
    /\ UNCHANGED <<strictTask, ctorVars, regLast, ban_hook, regSet, now,
                   hostVars, sent, data, recIdx, hookIdx, disp>>

\* line 82, while http.get is awaited: the server answers the request; the
\* response reaches the coroutine when the event loop resumes it
ServerAnswers ==
    /\ pc = "fetch"
    /\ cyc.served < 0
    /\ cyc' = [cyc EXCEPT !.served = now]
    /\ UNCHANGED <<strictTask, ctorVars, regLast, ban_hook, regSet, last_update, now,
                   hostVars, pc, sent, data, recIdx, hookIdx, sleepUntil, disp>>

\* line 82: http.get returns r; lines 83-86 up to the next await
FetchReturns(r) ==
    /\ pc = "fetch"
    /\ cyc.served >= 0
    /\ last_update' = Watermark(last_update, now)
    /\ LET c == [cyc EXCEPT !.answered = now]
       IN IF ~r.has_data
          THEN /\ Fail(c, "KeyError")
               /\ data' = <<>>
               /\ recIdx' = 0
               /\ hookIdx' = 0
               /\ disp' = disp
          ELSE /\ data' = r.data
               /\ Continue(c, disp, r.data, 1)
    /\ UNCHANGED <<strictTask, ctorVars, regLast, ban_hook, regSet, now, hostVars, sent>>

\* The list iterator of line 70 after the hook at hookIdx: the next hook is
\* awaited, or the dispatch returns and the for loop of line 84 goes on.
NextHook ==
    IF hookIdx + 1 <= Len(ban_hook)
    THEN /\ pc' = "hook"
         /\ hookIdx' = hookIdx + 1
         /\ disp' = [disp EXCEPT !.invoked = Append(@, ban_hook[hookIdx + 1])]
         /\ UNCHANGED <<recIdx, sleepUntil, cyc>>
    ELSE Continue(cyc, [disp EXCEPT !.state = "returned"], data, recIdx + 1)

\* line 72: the awaited hook returns
HookReturns ==
    /\ pc = "hook"
    /\ NextHook
    /\ UNCHANGED <<strictTask, ctorVars, regLast, ban_hook, regSet, last_update, now,
                   hostVars, sent, data>>

\* line 72: the awaited hook raises; lines 73-74
HookRaises ==
    /\ pc = "hook"
    /\ LET out == ExceptBody("HookError")
       IN IF out = "logged"
          THEN NextHook
          ELSE /\ Fail(cyc, out)
               /\ disp' = [disp EXCEPT !.state = "raised"]
               /\ UNCHANGED <<recIdx, hookIdx>>
    /\ UNCHANGED <<strictTask, ctorVars, regLast, ban_hook, regSet, last_update, now,
                   hostVars, sent, data>>

\* line 90: asyncio.sleep returns; an exception no clause caught leaves the
\* coroutine now, otherwise line 78 is next
WakeUp ==
    /\ pc = "sleep"
    /\ now >= sleepUntil
    /\ IF cyc.pending
       THEN pc' = "failed" /\ UNCHANGED <<sent, sleepUntil, cyc, disp>>
       ELSE EnterLoop
    /\ UNCHANGED <<strictTask, ctorVars, regLast, ban_hook, regSet, last_update, now,
                   hostVars, data, recIdx, hookIdx>>

NextCtor ==
    \/ \E bot \in Bots \cup {None} : Construct(bot)
    \/ \E bot \in Bots : Pluggable(bot)
    \/ \E d \in {1, SleepInterval} : Tick(d)

SpecCtor == InitCtor /\ [][NextCtor]_vars

Next ==
    \/ \E func \in Hooks : Register(func)
    \/ \E func \in Hooks : Unregister(func)
    \/ \E d \in {1, SleepInterval} : Tick(d)
    \/ HostReady
    \/ HostClose
    \/ StartBanUpdater
    \/ ResumeReady
    \/ ServerAnswers
    \/ \E exc \in {"TransportError", "APIError"} : FetchRaises(exc)
    \/ \E r \in Responses : FetchReturns(r)
    \/ HookReturns
    \/ HookRaises
    \/ WakeUp

Spec == Init /\ [][Next]_vars

\* The clock is not bounded: once the host is closed, the time at which the
\* sleep of line 90 may return comes, also beyond MaxTime.
TickPast ==
    /\ closed
    /\ pc = "sleep"
    /\ now < sleepUntil
    /\ now <= MaxTime
    /\ now + SleepInterval > MaxTime
    /\ now' = now + SleepInterval
    /\ UNCHANGED <<strictTask, ctorVars, regLast, ban_hook, regSet, last_update,
                   hostVars, loopVars, disp>>

\* The callbacks registered in the behaviours checked for termination
LiveHooks == {1}

\* The steps of Next, with the registry calls made for the callbacks of
\* LiveHooks, and the clock going on
NextLive ==
    \/ \E func \in LiveHooks : Register(func)
    \/ \E func \in LiveHooks : Unregister(func)
    \/ \E d \in {1, SleepInterval} : Tick(d)
    \/ TickPast
    \/ HostReady
    \/ HostClose
    \/ StartBanUpdater
    \/ ResumeReady
    \/ ServerAnswers
    \/ \E exc \in {"TransportError", "APIError"} : FetchRaises(exc)
    \/ \E r \in Responses : FetchReturns(r)
    \/ HookReturns
    \/ HookRaises
    \/ WakeUp

\* The event loop runs every task that can run: the coroutine is started, and
\* resumed when what it awaits is done (readiness, the sleep).  Every fetch
\* and every hook returns or raises, and time passes.  Nothing obliges the
\* host to become ready or to close, nor anybody to call the registry.
Fairness ==
    /\ WF_vars(StartBanUpdater)
    /\ WF_vars(ResumeReady)
    /\ WF_vars((\E exc \in {"TransportError", "APIError"} : FetchRaises(exc))
                  \/ (\E r \in Responses : FetchReturns(r))
                  \/ ServerAnswers)
    /\ WF_vars(HookReturns \/ HookRaises)
    /\ WF_vars(WakeUp)
    /\ WF_vars((\E d \in {1, SleepInterval} : Tick(d)) \/ TickPast)

SpecLive == Init /\ [][NextLive]_vars /\ Fairness

TypeOK ==
    /\ pc \in {"unborn", "failed", "wait_ready", "fetch", "hook", "sleep", "stopped"}
    /\ now \in 0..MaxTime
    /\ Len(objs) <= MaxClients
    /\ regLast \in {"none", "changed", "noop", "raised"}
    /\ disp.state \in {"none", "running", "returned", "raised"}

\* ------------------------------------------------------------ the claims
NoDuplicates(l) == \A i, j \in 1..Len(l) : l[i] = l[j] => i = j

Without(l, x) == SelectSeq(l, LAMBDA y : y # x)

\* A dispatch has ended, by returning or by raising
DispatchEnded == disp.state \in {"returned", "raised"}

\* The fetch of the current cycle has returned
Answered == cyc.answered >= 0

\* C1: when a dispatch has ended, whichever hooks raised, every hook that was
\* registered when it began has been invoked exactly once, in registration
\* order (stated for the dispatches during which the registry did not change).
C1_DispatchInvokesAll ==
    (DispatchEnded /\ ~disp.mutated) => disp.invoked = disp.snap

\* C2: _dispatch_ban_event never raises to its caller.
C2_DispatchNeverRaises == disp.state # "raised"

\* C3: the registry is the set of callbacks registered and not unregistered,
\* without duplicates and in first-insertion order; no registry call raises,
\* and a call that finds the callback already registered, or not registered,
\* leaves the list as it is.
C3_RegistrySetSemantics ==
    /\ [](/\ NoDuplicates(ban_hook)
          /\ Range(ban_hook) = regSet
          /\ regLast # "raised")
    /\ [][/\ regLast' = "noop" => ban_hook' = ban_hook
          /\ \/ ban_hook' = ban_hook
             \/ \E f \in Hooks \ Range(ban_hook) : ban_hook' = Append(ban_hook, f)
             \/ \E f \in Range(ban_hook) : ban_hook' = Without(ban_hook, f)]_vars

\* A call registered a callback that was already registered, and the
\* registry holds the callbacks in the order 2, 1 of their first registration.
C3_Witness == regLast = "noop" /\ ban_hook = <<2, 1>>

\* The sleep of line 90 returns in this step
Woke == pc = "sleep" /\ (pc' # "sleep" \/ cyc' # cyc)

\* C4: an exception raised inside a cycle (by the fetch or by the processing)
\* is swallowed: the coroutine goes to the sleep of the full interval, and when
\* the sleep returns the next cycle starts unless the host is closed.  The
\* coroutine only ever fails outside a cycle (a client without a host).
C4_LoopSurvivesFailure ==
    /\ [](pc = "failed" => (objs[1].bot = None /\ cyc = NoCycle))
    /\ [][/\ (cyc'.err # "" /\ cyc' # cyc) =>
                (pc' = "sleep" /\ sleepUntil' = now + SleepInterval /\ ~cyc'.pending)
          /\ Woke =>
                /\ now >= sleepUntil
                /\ ~closed => (pc' \in {"fetch", "sleep"} /\ cyc'.started = now
                                /\ cyc'.err = "")]_vars

\* A cycle whose fetch raised has slept the interval on a host that is open.
C4_Witness ==
    /\ pc = "sleep"
    /\ cyc.err = "TransportError"
    /\ now >= sleepUntil
    /\ ~closed

\* C5: a cycle that found the registry empty issues no fetch and dispatches
\* nothing; a cycle issues a fetch only if it found the registry non-empty.
C5_NoHooksNoFetch ==
    /\ cyc.emptyAtCheck =>
          (cyc.fetches = 0 /\ cyc.events = <<>> /\ disp = NoDispatch
           /\ pc \notin {"fetch", "hook"})
    /\ cyc.fetches > 0 => ~cyc.emptyAtCheck

\* A cycle found the registry empty and sleeps; a hook was registered since.
C5_Witness ==
    /\ cyc.started >= 0
    /\ cyc.emptyAtCheck
    /\ pc = "sleep"
    /\ ban_hook # <<>>

\* The event the cycle is to dispatch for record b
ExpectedEvent(b) ==
    IF b.active THEN [type |-> "BanEvent", fields |-> b]
    ELSE [type |-> "UnBanEvent", fields |-> b]

\* C6: the events a cycle dispatches are those of the records of data, one per
\* record and in list order: a BanEvent with the record's fields for an active
\* record, an UnBanEvent otherwise.  When no hook raises (and every record has
\* its flag) the cycle ends having dispatched all of them.  A dispatch begins
\* only when the one before has gone through the whole registry, having
\* invoked every hook if the registry did not change meanwhile.
C6_OneEventPerRecordInOrder ==
    /\ [](/\ Len(cyc.events) <= Len(data)
          /\ \A i \in 1..Len(cyc.events) : cyc.events[i] = ExpectedEvent(data[i])
          /\ (pc = "sleep" /\ Answered /\ cyc.err = "") => Len(cyc.events) = Len(data)
          /\ pc = "hook" => (recIdx = Len(cyc.events) /\ cyc.err = ""))
    /\ [][(pc = "hook" /\ Len(cyc'.events) > Len(cyc.events)) =>
             /\ hookIdx >= Len(ban_hook)
             /\ ~disp.mutated => disp.invoked = disp.snap]_vars

\* A cycle has ended without error after dispatching a BanEvent and then an
\* UnBanEvent, the last of them to two hooks.
C6_Witness ==
    /\ pc = "sleep"
    /\ cyc.err = ""
    /\ Len(cyc.events) = 2
    /\ cyc.events[1].type = "BanEvent"
    /\ cyc.events[2].type = "UnBanEvent"
    /\ disp.invoked = <<1, 2>>

C8_PluggableAttachesOnce ==
    lastCall.op = "pluggable" =>
        /\ ~lastCall.raised
        /\ ksoft[lastCall.arg] # None
        /\ lastCall.result = ksoft[lastCall.arg]

\* C9: a client constructed with a host has exactly one running _ban_updater
\* task and its construction completes; a client without a host has no task.
C9_PollTaskIffHost ==
    /\ \A i \in 1..Len(objs) :
          objs[i].task = IF objs[i].bot # None THEN "running" ELSE "none"
    /\ (lastCall.op = "Client" /\ lastCall.arg # None) => ~lastCall.raised

\* The coroutine passes line 78 in this step
LoopHead ==
    \/ Woke
    \/ pc \in {"unborn", "wait_ready"} /\ pc' \notin {"unborn", "wait_ready", "failed"}

\* C10: the loop stops only on a closed host and does nothing once stopped; a
\* loop test that sees the host closed stops the loop; the closing of the host
\* leaves a cycle in flight where it is, and the cycle goes on to its sleep.
C10_NoCycleAfterClose ==
    /\ [](pc = "stopped" => closed)
    /\ [][/\ pc = "stopped" =>
                (pc' = "stopped" /\ cyc' = cyc /\ disp' = disp /\ sent' = sent
                 /\ last_update' = last_update)
          /\ (LoopHead /\ closed) => (pc' = "stopped" /\ cyc' = cyc /\ disp' = disp)
          /\ closed' # closed => (pc' = pc /\ cyc' = cyc /\ disp' = disp)
          /\ (closed /\ pc \in {"fetch", "hook"}) => pc' \in {"fetch", "hook", "sleep"}]_vars

\* The loop has stopped after a cycle that fetched and dispatched two events.
C10_Witness ==
    /\ pc = "stopped"
    /\ cyc.fetches = 1
    /\ Len(cyc.events) = 2
    /\ disp.state = "returned"

\* The fetch of the current (or last) cycle raised
FetchFailed == cyc.err \in {"TransportError", "APIError"}

CycleOver == pc \in {"sleep", "stopped", "failed"}

\* C12: when a cycle whose fetch returned a list of well-formed records is
\* over, every record of the list has been converted and dispatched, whichever
\* hooks raised on the way.
C12_BatchSurvivesHookFailure ==
    (CycleOver /\ Answered /\ \A i \in 1..Len(data) : data[i].has_active) =>
        Len(cyc.events) = Len(data)

\* How many times the hook h occurs in the sequence l
Count(h, l) == Cardinality({i \in 1..Len(l) : l[i] = h})

\* C13: a dispatch that has returned has invoked exactly once every hook that
\* was registered when it began and was not unregistered while it ran,
\* whatever registry calls were made while it was suspended in a hook.
C13_MutationKeepsIteration ==
    disp.state = "returned" =>
        \A h \in Range(disp.snap) \ disp.removed : Count(h, disp.invoked) = 1

\* A cycle begins in this step
CycleStarts == cyc'.started # cyc.started

\* The try block of a cycle that fetched ends in this step
CycleEnds == pc \in {"fetch", "hook"} /\ pc' \notin {"fetch", "hook"}

\* C14: every cycle, whether it fetched, raised or skipped the fetch, is
\* followed by one sleep of the whole interval; a cycle begins only when the
\* coroutine first enters the loop or when the sleep of the cycle before has
\* lasted the interval, so that two cycles begin at least an interval apart;
\* the sleep is left only for the loop test.
C14_OneSleepBetweenCycles ==
    /\ [](pc = "sleep" => sleepUntil >= cyc.started + SleepInterval)
    /\ [][/\ CycleEnds => (pc' = "sleep" /\ sleepUntil' = now + SleepInterval)
          /\ (CycleStarts /\ pc' # "fetch") =>
                (pc' = "sleep" /\ sleepUntil' = now + SleepInterval)
          /\ CycleStarts =>
                \/ pc \in {"unborn", "wait_ready"} /\ cyc = NoCycle
                \/ /\ pc = "sleep"
                   /\ now >= sleepUntil
                   /\ cyc'.started >= cyc.started + SleepInterval
          /\ (pc = "sleep" /\ pc' # "sleep") =>
                (now >= sleepUntil /\ (pc' = "stopped" \/ CycleStarts))]_vars

\* A second cycle has fetched, an interval or more after the first began.
C14_Witness ==
    /\ pc = "fetch"
    /\ cyc.started >= SleepInterval

\* C15: once the fetch of a poll has returned, the watermark the next poll
\* will send is not later than the instant at which the server answered this
\* poll, so that no update the server records after answering falls before
\* the next poll's window.
C15_NoGapAfterServerAnswer == Answered => last_update <= cyc.served

\* The coroutine has not entered the loop yet
Idle == pc \in {"unborn", "wait_ready"}

\* C16: as long as the host has not signalled readiness the coroutine has run
\* no cycle, sent no fetch and dispatched nothing, and it stays where it
\* waits; the step in which wait_until_ready returns makes the loop test and
\* begins the first cycle at once (or stops, on a closed host), with no sleep
\* before it.
C16_NoCycleBeforeReady ==
    /\ [](~ready => (/\ pc \in {"unborn", "wait_ready", "failed"}
                     /\ cyc = NoCycle
                     /\ disp = NoDispatch
                     /\ sent = None - 1
                     /\ last_update = 0 - Backlog))
    /\ [][/\ (pc = "wait_ready" /\ ~ready) => pc' = "wait_ready"
          /\ (Idle /\ pc' \notin {"unborn", "wait_ready", "failed"}) =>
                /\ ready
                /\ \/ closed /\ pc' = "stopped" /\ cyc' = NoCycle
                   \/ /\ ~closed
                      /\ cyc'.started = now
                      /\ pc' = IF ban_hook # <<>> THEN "fetch" ELSE "sleep"]_vars

\* The host became ready after the clock had advanced, and the first fetch
\* is in flight at that clock value: no sleep has been started yet.
C16_Witness ==
    /\ ready
    /\ pc = "fetch"
    /\ now > 0
    /\ cyc.started = now
    /\ sleepUntil = 0

\* The client has a host, so the constructor made a poll task for it
HasTask == objs[1].bot # None

\* C17 as stated: once the host is closed, the poll task eventually stops.
C17_StopsAfterClose == (closed /\ HasTask) ~> (pc = "stopped")

\* C17 as amended: once the host is closed, having signalled readiness, the
\* poll task eventually stops, whatever the cycle in flight does.
C17_StopsAfterCloseWhenReady == (closed /\ ready /\ HasTask) ~> (pc = "stopped")

\* The host was closed during a dispatch, the hook raised, and the loop has
\* stopped after the sleep of that cycle.
C17_Witness ==
    /\ pc = "stopped"
    /\ cyc.err = "NameError"
    /\ now >= sleepUntil
    /\ sleepUntil > MaxTime

\* A fetch is issued in this step
FetchIssued == pc' = "fetch" /\ pc # "fetch"

\* C18: the watermark starts as the creation time minus the backlog and
\* changes only in the step in which a fetch returns; no step taken from a
\* cycle that skipped the fetch changes it, and a cycle that skips sends
\* nothing; a fetch is sent with the watermark as it then stands, which is
\* therefore that of the last fetch that returned, or the initial value.
C18_SkipKeepsWatermark ==
    /\ last_update = now - Backlog
    /\ [][/\ cyc.emptyAtCheck => last_update' = last_update
          /\ (CycleStarts /\ cyc'.emptyAtCheck) => (sent' = sent /\ cyc'.fetches = 0)
          /\ last_update' # last_update => (pc = "fetch" /\ Answered' /\ ~Answered)
          /\ FetchIssued => sent' = last_update]_vars

\* A cycle that skipped the fetch has slept the interval with the watermark
\* at its initial value; a hook has been registered since and the host is
\* open, so the first fetch is next.
C18_Witness ==
    /\ pc = "sleep"
    /\ cyc.started >= 0
    /\ cyc.emptyAtCheck
    /\ now >= sleepUntil
    /\ ban_hook # <<>>
    /\ ~closed
    /\ last_update = 0 - Backlog

\* A registry call or a step of a dispatch is taken
RegistryOrDispatchStep ==
    \/ ban_hook' # ban_hook
    \/ regLast' # regLast
    \/ pc = "hook"

\* C19: the watermark never exceeds the clock and never decreases; a step
\* that changes it sets it to the clock value; registry calls and dispatch
\* steps leave it alone; the timestamp of a fetch is not later than the
\* watermark and not earlier than the timestamp of the fetch before.
C19_WatermarkMonotone ==
    /\ [](/\ last_update <= now
          /\ sent # None - 1 => sent <= last_update)
    /\ [][/\ last_update' >= last_update
          /\ last_update' # last_update => last_update' = now
          /\ RegistryOrDispatchStep => last_update' = last_update
          /\ (FetchIssued /\ sent # None - 1) => sent' >= sent]_vars

\* A second fetch is in flight, sent with the watermark the first fetch left
\* when it returned after the clock had advanced.
C19_Witness ==
    /\ pc = "fetch"
    /\ sent > 0
    /\ sent < now
    /\ last_update = sent

====
